---- MODULE Spec2Model ----
(***************************************************************************)
(* Model of src/src/main.c: boot, certificate provisioning, LTE attach     *)
(* with bounded retry, SIM authentication, credential handoff and the      *)
(* operational loop, with the LTE event callback as a second context.      *)
(***************************************************************************)
EXTENDS Integers, Sequences, FiniteSets, TLC

\* ---- program constants (main.c) ----
LED_HEARTBEAT_MS == 500
REGISTER_TRY == 3
SZ_WORK_BUFF == 1024
AUTH_RETRY_MS == 10000
LOOP_SLEEP_MS == 10
ERR_BLINK_MS == 100

\* ---- bounds of the model ----
MaxAuthFail == 2      \* auth_request failures explored before it must succeed
MaxSamples == 3       \* iterations of the operational loop explored
MaxBlink == 2         \* boot-LED toggles explored in the terminal loop
MaxHbSamples == 55    \* loop iterations explored from the ready device

\* a download either returns at once or blocks longer than one heartbeat
DlDurations == {0, LED_HEARTBEAT_MS + 100}

VARIABLES
    \* environment
    ready,            \* set of gpio devices that are ready at boot
    keyPresent,       \* a CA chain is stored under TLS_SEC_TAG
    modemOnline,      \* the modem is searching/registered (events may come)
    uptime,           \* k_uptime_get(), ms
    \* program state
    pc,               \* position of the main task
    err,              \* failure with which main reached the err label
    configured,       \* gpio pins configured by led_init/button_init
    led_init_rc,      \* return value of led_init()
    led_boot, led_state,
    exists,           \* cert_provision: local 'exists'
    i,                \* init_modem_and_lte: attach loop counter
    bringup_rc,       \* return value of init_modem_and_lte
    lte_connected,    \* semaphore count (limit 1)
    evt_handler,      \* handler registered by lte_lc_connect_async
    user_name, password,
    ms_now, ms_timeout, btn_prev, btn_val,
    printed,          \* console: number of times each main-task line was put
    lastHandlerPrint, \* console: last line put by lte_handler
    cb,               \* console: <<buff, characters put>> of the latest
                      \* cb_fileDownload call of the download in progress
    \* history of the calls made (observation only)
    cert,             \* keystore calls of cert_provision
    lte,              \* LTE library calls of the attach loop
    auth,             \* cloud client calls
    loop              \* operational loop observations

envVars == <<ready, keyPresent, modemOnline, uptime>>
gpioVars == <<configured, led_init_rc, led_boot, led_state>>
attachVars == <<i, bringup_rc, lte_connected, evt_handler, lte>>
credVars == <<user_name, password, auth>>
loopVars == <<ms_now, ms_timeout, btn_prev, btn_val, loop>>
conVars == <<printed, lastHandlerPrint, cb>>
vars == <<ready, keyPresent, modemOnline, uptime, pc, err, configured,
          led_init_rc, led_boot, led_state, exists, i, bringup_rc,
          lte_connected, evt_handler, user_name, password, ms_now,
          ms_timeout, btn_prev, btn_val, printed, lastHandlerPrint, cb,
          cert, lte, auth, loop>>

Devices == {"led_boot", "led_state", "btn_send"}
ENODEV == "-ENODEV"
\* loop.lastLevel before the first valid button sample
NoLevel == -1
Lines == {"TIMEOUT", "SetAuthMode", "faild", "OK", "Ready", "Pushed",
          "FAILED", "Received"}

\* UartBrokerPrint / UartBrokerPuts of one of the main task's lines
Put(con, line) == [con EXCEPT ![line] = @ + 1]

\* gpio_pin_set_dt: drives the pin if it was configured as an output
PinSet(pin, old, val) == IF pin \in configured THEN val ELSE old

\* gpio_pin_toggle_dt
PinToggle(pin, old) == IF pin \in configured THEN 1 - old ELSE old

\* goto err
Fatal(class) == /\ pc' = "err"
                /\ err' = class

\* init_modem_and_lte returns a non-zero err; main: if (err) goto err
BringUpFail(class) == /\ Fatal(class)
                      /\ bringup_rc' = "failed"

\* observations of the operational loop before its first iteration;
\* horizon: the number of iterations explored
LoopStart(h) ==
    [horizon |-> h, iterations |-> 0, samples |-> 0, hist |-> <<>>,
     firstLevel |-> NoLevel, lastLevel |-> NoLevel, edges |-> 0,
     downloads |-> 0, toggles |-> 0, lastToggle |-> -1, dlSince |-> FALSE,
     blinks |-> 0]

Init ==
    /\ ready \in SUBSET Devices
    /\ keyPresent \in BOOLEAN
    /\ modemOnline = FALSE
    /\ uptime = 0
    /\ pc = "boot"
    /\ err = "none"
    /\ configured = {}
    /\ led_init_rc = "none"
    /\ led_boot = 0
    /\ led_state = 0
    /\ exists = FALSE
    /\ i = 0
    /\ bringup_rc = "none"
    /\ lte_connected = 0
    /\ evt_handler = FALSE
    /\ user_name = 0
    /\ password = 0
    /\ ms_now = 0
    /\ ms_timeout = 0
    /\ btn_prev = 0
    /\ btn_val = 0
    /\ printed = [l \in Lines |-> 0]
    /\ lastHandlerPrint = "none"
    /\ cb = <<>>
    /\ cert = [existedAtQuery |-> FALSE, deleteCalls |-> 0, deleteOk |-> FALSE,
               presentAtWrite |-> FALSE, writeCalls |-> 0, writeOk |-> 0]
    /\ lte = [modemInit |-> 0, init |-> 0, connect |-> 0, timeouts |-> 0,
              cleanup |-> "clean", eventsEnabled |-> FALSE,
              regSinceConnect |-> FALSE, takenAt |-> 0, psm |-> 0]
    /\ auth = [calls |-> 0, fails |-> 0, last |-> "none", setCalls |-> 0,
               setArg |-> <<0, 0>>, setOk |-> FALSE]
    /\ loop = LoopStart(MaxSamples)

\* ---- peripheral bring-up (main, lines 257-279) ----

\* led_init(): configures led_boot, then led_state; stops at the first
\* device that is not ready
LedInitCfg == IF "led_boot" \notin ready THEN {}
              ELSE IF "led_state" \notin ready THEN {"led_boot"}
              ELSE {"led_boot", "led_state"}

LedInitRc == IF {"led_boot", "led_state"} \subseteq ready THEN "0" ELSE ENODEV

\* (variant: led_init leaves the state LED lit)
MainLedInit_StateOn ==
    /\ pc = "boot"
    /\ configured' = LedInitCfg
    /\ led_init_rc' = LedInitRc
    /\ led_boot' = IF "led_boot" \in LedInitCfg THEN 1 ELSE led_boot
    /\ led_state' = IF "led_state" \in LedInitCfg THEN 1 ELSE led_state
    /\ pc' = "button_init"
    /\ UNCHANGED <<envVars, err, exists, attachVars, credVars, loopVars,
                   conVars, cert>>

\* main: UartBrokerInit, banner, led_init() (result not used), led_boot on
MainLedInit ==
    /\ pc = "boot"
    /\ configured' = LedInitCfg
    /\ led_init_rc' = LedInitRc
    /\ led_boot' = IF "led_boot" \in LedInitCfg THEN 1 ELSE led_boot
    /\ pc' = "button_init"
    /\ UNCHANGED <<envVars, err, led_state, exists, attachVars, credVars,
                   loopVars, conVars, cert>>

\* main: button_init() != 0 -> led_boot off, goto err
MainButtonInit ==
    /\ pc = "button_init"
    /\ IF "btn_send" \in ready
          THEN /\ configured' = configured \cup {"btn_send"}
               /\ pc' = "modem_init"
               /\ UNCHANGED <<err, led_boot>>
          ELSE /\ led_boot' = PinSet("led_boot", led_boot, 0)
               /\ Fatal("ButtonUnavailable")
               /\ UNCHANGED configured
    /\ UNCHANGED <<envVars, led_init_rc, led_state, exists, attachVars,
                   credVars, loopVars, conVars, cert>>

\* ---- init_modem_and_lte (lines 155-231) ----

\* nrf_modem_lib_init(NORMAL_MODE)
ModemLibInit ==
    /\ pc = "modem_init"
    /\ lte' = [lte EXCEPT !.modemInit = @ + 1]
    /\ \E ok \in BOOLEAN :
          IF ok THEN pc' = "cert_exists" /\ UNCHANGED <<err, bringup_rc>>
                ELSE BringUpFail("ModemInitFailed")
    /\ UNCHANGED <<envVars, gpioVars, exists, i, lte_connected,
                   evt_handler, credVars, loopVars, conVars, cert>>

\* (variant: an existing entry is not deleted before the write)
CertExists_NoDelete ==
    /\ pc = "cert_exists"
    /\ \E ok \in BOOLEAN :
          IF ok THEN /\ exists' = keyPresent
                     /\ cert' = [cert EXCEPT !.existedAtQuery = keyPresent]
                     /\ pc' = "cert_write"
                     /\ UNCHANGED <<err, bringup_rc>>
                ELSE /\ BringUpFail("KeystoreQueryFailed")
                     /\ UNCHANGED <<exists, cert>>
    /\ UNCHANGED <<envVars, gpioVars, i, lte_connected, evt_handler, lte,
                   credVars, loopVars, conVars>>

\* cert_provision: modem_key_mgmt_exists
CertExists ==
    /\ pc = "cert_exists"
    /\ \E ok \in BOOLEAN :
          IF ok THEN /\ exists' = keyPresent
                     /\ cert' = [cert EXCEPT !.existedAtQuery = keyPresent]
                     /\ pc' = IF keyPresent THEN "cert_delete" ELSE "cert_write"
                     /\ UNCHANGED <<err, bringup_rc>>
                ELSE /\ BringUpFail("KeystoreQueryFailed")
                     /\ UNCHANGED <<exists, cert>>
    /\ UNCHANGED <<envVars, gpioVars, i, lte_connected, evt_handler, lte,
                   credVars, loopVars, conVars>>

\* cert_provision: modem_key_mgmt_delete; a failure is only logged
CertDelete ==
    /\ pc = "cert_delete"
    /\ \E ok \in BOOLEAN :
          /\ keyPresent' = IF ok THEN FALSE ELSE keyPresent
          /\ cert' = [cert EXCEPT !.deleteCalls = @ + 1, !.deleteOk = ok]
    /\ pc' = "cert_write"
    /\ UNCHANGED <<ready, modemOnline, uptime, err, gpioVars, exists,
                   attachVars, credVars, loopVars, conVars>>

\* cert_provision: modem_key_mgmt_write
CertWrite ==
    /\ pc = "cert_write"
    /\ \E ok \in BOOLEAN :
          IF ok THEN /\ keyPresent' = TRUE
                     /\ cert' = [cert EXCEPT !.writeCalls = @ + 1,
                                             !.writeOk = @ + 1,
                                             !.presentAtWrite = keyPresent]
                     /\ pc' = "pdn_create"
                     /\ UNCHANGED <<err, bringup_rc>>
                ELSE /\ cert' = [cert EXCEPT !.writeCalls = @ + 1,
                                             !.presentAtWrite = keyPresent]
                     /\ BringUpFail("KeystoreWriteFailed")
                     /\ UNCHANGED keyPresent
    /\ UNCHANGED <<ready, modemOnline, uptime, gpioVars, exists, i,
                   lte_connected, evt_handler, lte, credVars, loopVars,
                   conVars>>

\* pdn_ctx_create
PdnCreate ==
    /\ pc = "pdn_create"
    /\ \E ok \in BOOLEAN :
          IF ok THEN pc' = "pdn_configure" /\ UNCHANGED <<err, bringup_rc>>
                ELSE BringUpFail("PdnCreateFailed")
    /\ UNCHANGED <<envVars, gpioVars, exists, i, lte_connected, evt_handler,
                   lte, credVars, loopVars, conVars, cert>>

\* pdn_ctx_configure(cid, "sakura", PDN_FAM_IPV4, NULL); then i = 0
PdnConfigure ==
    /\ pc = "pdn_configure"
    /\ \E ok \in BOOLEAN :
          IF ok THEN pc' = "attach_loop" /\ i' = 0
                     /\ UNCHANGED <<err, bringup_rc>>
                ELSE BringUpFail("PdnConfigureFailed") /\ UNCHANGED i
    /\ UNCHANGED <<envVars, gpioVars, exists, lte_connected,
                   evt_handler, lte, credVars, loopVars, conVars, cert>>

\* (variant: the loop admits one attempt too many)
AttachLoopCond_OffByOne(n) == n <= REGISTER_TRY

\* loop condition of  for (int i = 0; i < REGISTER_TRY; i++)
AttachLoopCond(n) == n < REGISTER_TRY

\* loop test; when the budget is used up: return -1
AttachLoop ==
    /\ pc = "attach_loop"
    /\ IF AttachLoopCond(i)
          THEN pc' = "lte_init" /\ UNCHANGED <<err, bringup_rc>>
          ELSE BringUpFail("AttachExhausted")
    /\ UNCHANGED <<envVars, gpioVars, exists, i, lte_connected, evt_handler,
                   lte, credVars, loopVars, conVars, cert>>

\* lte_lc_init
LteInit ==
    /\ pc = "lte_init"
    /\ lte' = [lte EXCEPT !.init = @ + 1, !.eventsEnabled = FALSE]
    /\ \E ok \in BOOLEAN :
          IF ok THEN pc' = "events_enable" /\ UNCHANGED <<err, bringup_rc>>
                ELSE BringUpFail("LteInitFailed")
    /\ UNCHANGED <<envVars, gpioVars, exists, i, lte_connected, evt_handler,
                   credVars, loopVars, conVars, cert>>

\* (variant: the modem events are not enabled)
LteEventsEnable_Skipped ==
    /\ pc = "events_enable"
    /\ pc' = "connect"
    /\ UNCHANGED <<envVars, err, gpioVars, exists, attachVars, credVars,
                   loopVars, conVars, cert>>

\* lte_lc_modem_events_enable
LteEventsEnable ==
    /\ pc = "events_enable"
    /\ lte' = [lte EXCEPT !.eventsEnabled = TRUE]
    /\ pc' = "connect"
    /\ UNCHANGED <<envVars, err, gpioVars, exists, i, bringup_rc,
                   lte_connected, evt_handler, credVars, loopVars, conVars,
                   cert>>

\* (variant: a failed connect request is retried like a timeout)
LteConnectAsync_Retry ==
    /\ pc = "connect"
    /\ \E ok \in BOOLEAN :
          IF ok THEN /\ evt_handler' = TRUE
                     /\ modemOnline' = TRUE
                     /\ lte' = [lte EXCEPT !.connect = @ + 1,
                                           !.regSinceConnect = FALSE]
                     /\ pc' = "sem_take"
                     /\ UNCHANGED i
                ELSE /\ i' = i + 1
                     /\ pc' = "attach_loop"
                     /\ UNCHANGED <<evt_handler, modemOnline, lte>>
    /\ UNCHANGED <<ready, keyPresent, uptime, err, bringup_rc, gpioVars,
                   exists, lte_connected, credVars, loopVars, conVars, cert>>

\* lte_lc_connect_async(lte_handler)
LteConnectAsync ==
    /\ pc = "connect"
    /\ \E ok \in BOOLEAN :
          IF ok THEN /\ evt_handler' = TRUE
                     /\ modemOnline' = TRUE
                     /\ lte' = [lte EXCEPT !.connect = @ + 1,
                                           !.regSinceConnect = FALSE]
                     /\ pc' = "sem_take"
                     /\ UNCHANGED <<err, bringup_rc>>
                ELSE /\ BringUpFail("ConnectRequestFailed")
                     /\ UNCHANGED <<evt_handler, modemOnline, lte>>
    /\ UNCHANGED <<ready, keyPresent, uptime, gpioVars, exists, i,
                   lte_connected, credVars, loopVars, conVars, cert>>

\* k_sem_take(&lte_connected, K_MSEC(REGISTER_TIMEOUT_MS)) returns 0
SemTakeOk ==
    /\ pc = "sem_take"
    /\ lte_connected > 0
    /\ lte_connected' = lte_connected - 1
    /\ lte' = [lte EXCEPT !.takenAt = lte.connect]
    /\ pc' = "psm"
    /\ UNCHANGED <<envVars, err, gpioVars, exists, i, bringup_rc, evt_handler,
                   credVars, loopVars, conVars, cert>>

\* k_sem_take returns another error: return err
SemTakeError ==
    /\ pc = "sem_take"
    /\ BringUpFail("SemTakeError")
    /\ UNCHANGED <<envVars, gpioVars, exists, i, lte_connected, evt_handler,
                   lte, credVars, loopVars, conVars, cert>>

\* (variant: on a timeout the loop continues without offline and deinit)
SemTakeTimeout_NoCleanup ==
    /\ pc = "sem_take"
    /\ lte_connected = 0
    /\ printed' = Put(printed, "TIMEOUT")
    /\ lte' = [lte EXCEPT !.timeouts = @ + 1, !.cleanup = "need_offline"]
    /\ i' = i + 1
    /\ pc' = "attach_loop"
    /\ UNCHANGED <<envVars, err, gpioVars, exists, bringup_rc, lte_connected,
                   evt_handler, credVars, loopVars, lastHandlerPrint, cb, cert>>

\* k_sem_take returns -EAGAIN: no permit within the timeout; prints TIMEOUT
SemTakeTimeout ==
    /\ pc = "sem_take"
    /\ lte_connected = 0
    /\ printed' = Put(printed, "TIMEOUT")
    /\ lte' = [lte EXCEPT !.timeouts = @ + 1, !.cleanup = "need_offline"]
    /\ pc' = "offline"
    /\ UNCHANGED <<envVars, err, gpioVars, exists, i, bringup_rc,
                   lte_connected, evt_handler, credVars, loopVars,
                   lastHandlerPrint, cb, cert>>

\* lte_lc_offline
LteOffline ==
    /\ pc = "offline"
    /\ modemOnline' = FALSE
    /\ lte' = [lte EXCEPT !.cleanup =
                  IF @ = "need_offline" THEN "need_deinit" ELSE @]
    /\ pc' = "deinit"
    /\ UNCHANGED <<ready, keyPresent, uptime, err, gpioVars, exists, i,
                   bringup_rc, lte_connected, evt_handler, credVars, loopVars,
                   conVars, cert>>

\* lte_lc_deinit; continue (i++)
LteDeinit ==
    /\ pc = "deinit"
    /\ lte' = [lte EXCEPT !.cleanup =
                  IF @ = "need_deinit" THEN "clean" ELSE @]
    /\ i' = i + 1
    /\ pc' = "attach_loop"
    /\ UNCHANGED <<envVars, err, gpioVars, exists, bringup_rc, lte_connected,
                   evt_handler, credVars, loopVars, conVars, cert>>

\* (variant: a failed PSM request fails bring-up)
LtePsmReq_Fatal ==
    /\ pc = "psm"
    /\ \E ok \in BOOLEAN :
          /\ lte' = [lte EXCEPT !.psm = IF ok THEN 1 ELSE -1]
          /\ IF ok THEN /\ bringup_rc' = "ok"
                        /\ pc' = "auth_request"
                        /\ UNCHANGED err
                   ELSE BringUpFail("PsmRequestFailed")
    /\ UNCHANGED <<envVars, gpioVars, exists, i, lte_connected,
                   evt_handler, credVars, loopVars, conVars, cert>>

\* lte_lc_psm_req(true): the result is only logged; return 0
LtePsmReq ==
    /\ pc = "psm"
    /\ \E ok \in BOOLEAN : lte' = [lte EXCEPT !.psm = IF ok THEN 1 ELSE -1]
    /\ bringup_rc' = "ok"
    /\ pc' = "auth_request"
    /\ UNCHANGED <<envVars, err, gpioVars, exists, i, lte_connected,
                   evt_handler, credVars, loopVars, conVars, cert>>

\* ---- lte_handler (lines 125-153), run by the modem library's context ----

EvtTypes == {"NW_REG_STATUS", "CELL_UPDATE", "LTE_MODE_UPDATE", "MODEM_EVENT",
             "OTHER"}
RegStatuses == {"SEARCHING", "REGISTERED_HOME", "REGISTERED_ROAMING",
                "NOT_REGISTERED"}
Registered(st) == st \in {"REGISTERED_HOME", "REGISTERED_ROAMING"}

\* k_sem_give on a semaphore of limit 1
SemGive(count) == IF count < 1 THEN count + 1 ELSE count

\* (variant: every registration status gives the permit)
lte_handler_AnyStatus(type, st) ==
    /\ evt_handler
    /\ modemOnline
    /\ IF type = "NW_REG_STATUS"
          THEN /\ lastHandlerPrint' = "REGISTERD"
               /\ lte_connected' = SemGive(lte_connected)
               /\ lte' = [lte EXCEPT !.regSinceConnect = TRUE]
          ELSE UNCHANGED <<lastHandlerPrint, lte_connected, lte>>
    /\ UNCHANGED <<envVars, pc, err, gpioVars, exists, i, bringup_rc,
                   evt_handler, credVars, loopVars, printed, cb, cert>>

lte_handler(type, st) ==
    /\ evt_handler
    /\ modemOnline
    /\ IF type = "NW_REG_STATUS" /\ st = "SEARCHING"
          THEN /\ lastHandlerPrint' = "SEARCHING"
               /\ UNCHANGED <<lte_connected, lte>>
          ELSE IF type = "NW_REG_STATUS" /\ Registered(st)
          THEN /\ lastHandlerPrint' = "REGISTERD"
               /\ lte_connected' = SemGive(lte_connected)
               /\ lte' = [lte EXCEPT !.regSinceConnect = TRUE]
          ELSE UNCHANGED <<lastHandlerPrint, lte_connected, lte>>
    /\ UNCHANGED <<envVars, pc, err, gpioVars, exists, i, bringup_rc,
                   evt_handler, credVars, loopVars, printed, cb, cert>>

\* the events the modem library can deliver: a registration status comes
\* with NW_REG_STATUS only
Events == {<<"NW_REG_STATUS", st>> : st \in RegStatuses}
            \cup {<<type, "NOT_REGISTERED">> : type \in EvtTypes}

LteEvent == \E e \in Events : lte_handler(e[1], e[2])

\* ---- main: authentication and credential handoff (lines 287-305) ----

\* what a failed SipfAuthRequest may leave in a buffer: the old content or
\* a partial result
Garbage == -1
AfterFailedAuth(old) == {old, Garbage}

\* (variant: a failed request falls through to the handoff)
AuthRequest_NoContinue ==
    /\ pc = "auth_request"
    /\ LET k == auth.calls + 1 IN
       \/ /\ user_name' = k
          /\ password' = k
          /\ auth' = [auth EXCEPT !.calls = k, !.last = "ok"]
          /\ printed' = Put(Put(printed, "SetAuthMode"), "OK")
          /\ pc' = "set_auth"
       \/ /\ auth.fails < MaxAuthFail
          /\ user_name' \in AfterFailedAuth(user_name)
          /\ password' \in AfterFailedAuth(password)
          /\ auth' = [auth EXCEPT !.calls = k, !.fails = @ + 1,
                                  !.last = "failed"]
          /\ printed' = Put(Put(printed, "SetAuthMode"), "faild")
          /\ pc' = "set_auth"
    /\ UNCHANGED <<envVars, err, gpioVars, exists, attachVars, loopVars,
                   lastHandlerPrint, cb, cert>>

\* (variant: the second failed request is fatal)
AuthRequest_Capped ==
    /\ pc = "auth_request"
    /\ LET k == auth.calls + 1 IN
       \/ /\ user_name' = k
          /\ password' = k
          /\ auth' = [auth EXCEPT !.calls = k, !.last = "ok"]
          /\ printed' = Put(Put(printed, "SetAuthMode"), "OK")
          /\ pc' = "set_auth"
          /\ UNCHANGED err
       \/ /\ auth.fails < MaxAuthFail
          /\ user_name' \in AfterFailedAuth(user_name)
          /\ password' \in AfterFailedAuth(password)
          /\ auth' = [auth EXCEPT !.calls = k, !.fails = @ + 1,
                                  !.last = "failed"]
          /\ printed' = Put(Put(printed, "SetAuthMode"), "faild")
          /\ IF auth.fails >= 1 THEN Fatal("AuthFailed")
                                ELSE pc' = "auth_backoff" /\ UNCHANGED err
    /\ UNCHANGED <<envVars, gpioVars, exists, attachVars, loopVars,
                   lastHandlerPrint, cb, cert>>

\* SipfAuthRequest(user_name, ..., password, ...): the k-th call, when it
\* succeeds, yields the pair (k, k)
AuthRequest ==
    /\ pc = "auth_request"
    /\ LET k == auth.calls + 1 IN
       \/ /\ user_name' = k
          /\ password' = k
          /\ auth' = [auth EXCEPT !.calls = k, !.last = "ok"]
          /\ printed' = Put(Put(printed, "SetAuthMode"), "OK")
          /\ pc' = "set_auth"
       \/ /\ auth.fails < MaxAuthFail
          /\ user_name' \in AfterFailedAuth(user_name)
          /\ password' \in AfterFailedAuth(password)
          /\ auth' = [auth EXCEPT !.calls = k, !.fails = @ + 1,
                                  !.last = "failed"]
          /\ printed' = Put(Put(printed, "SetAuthMode"), "faild")
          /\ pc' = "auth_backoff"
    /\ UNCHANGED <<envVars, err, gpioVars, exists, attachVars, loopVars,
                   lastHandlerPrint, cb, cert>>

\* k_sleep(K_MSEC(10000)); continue
AuthBackoff ==
    /\ pc = "auth_backoff"
    /\ uptime' = uptime + AUTH_RETRY_MS
    /\ pc' = "auth_request"
    /\ UNCHANGED <<ready, keyPresent, modemOnline, err, gpioVars, exists,
                   attachVars, credVars, loopVars, conVars, cert>>

\* (variant: the result of the handoff is not checked)
SetAuthInfo_Unchecked ==
    /\ pc = "set_auth"
    /\ \E ok \in BOOLEAN :
          /\ auth' = [auth EXCEPT !.setCalls = @ + 1,
                                  !.setArg = <<user_name, password>>,
                                  !.setOk = ok]
          /\ pc' = "ready"
          /\ UNCHANGED err
    /\ UNCHANGED <<envVars, gpioVars, exists, attachVars, user_name, password,
                   loopVars, conVars, cert>>

\* SipfClientHttpSetAuthInfo(user_name, password); err < 0 -> goto err
SetAuthInfo ==
    /\ pc = "set_auth"
    /\ \E ok \in BOOLEAN :
          /\ auth' = [auth EXCEPT !.setCalls = @ + 1,
                                  !.setArg = <<user_name, password>>,
                                  !.setOk = ok]
          /\ IF ok THEN pc' = "ready" /\ UNCHANGED err
                   ELSE Fatal("CredentialInjectFailed")
    /\ UNCHANGED <<envVars, gpioVars, exists, attachVars, user_name, password,
                   loopVars, conVars, cert>>

\* ---- main: operational loop (lines 307-341) ----

\* "+++ Ready +++", state LED on, first heartbeat deadline, btn_prev = 0
MainReady ==
    /\ pc = "ready"
    /\ printed' = Put(printed, "Ready")
    /\ led_state' = PinSet("led_state", led_state, 1)
    /\ ms_timeout' = uptime + LED_HEARTBEAT_MS
    /\ btn_prev' = 0
    /\ pc' = "loop_hb"
    /\ UNCHANGED <<envVars, err, configured, led_init_rc, led_boot, exists,
                   attachVars, credVars, ms_now, btn_val, loop,
                   lastHandlerPrint, cb, cert>>

\* (variant: the deadline is not re-armed)
Heartbeat_NoRearm ==
    /\ pc = "loop_hb"
    /\ loop.iterations < loop.horizon
    /\ ms_now' = uptime
    /\ IF ms_timeout - uptime < 0
          THEN /\ led_state' = PinToggle("led_state", led_state)
               /\ loop' = [loop EXCEPT !.iterations = @ + 1,
                                       !.toggles = @ + 1,
                                       !.lastToggle = uptime,
                                       !.dlSince = FALSE]
          ELSE /\ loop' = [loop EXCEPT !.iterations = @ + 1]
               /\ UNCHANGED led_state
    /\ pc' = "loop_btn"
    /\ UNCHANGED <<envVars, err, configured, led_init_rc, led_boot, exists,
                   attachVars, credVars, ms_timeout, btn_prev, btn_val,
                   conVars, cert>>

\* heartbeat: ms_now = k_uptime_get(); past the deadline -> re-arm, toggle
Heartbeat ==
    /\ pc = "loop_hb"
    /\ loop.iterations < loop.horizon
    /\ ms_now' = uptime
    /\ IF ms_timeout - uptime < 0
          THEN /\ ms_timeout' = uptime + LED_HEARTBEAT_MS
               /\ led_state' = PinToggle("led_state", led_state)
               /\ loop' = [loop EXCEPT !.iterations = @ + 1,
                                       !.toggles = @ + 1,
                                       !.lastToggle = uptime,
                                       !.dlSince = FALSE]
          ELSE /\ loop' = [loop EXCEPT !.iterations = @ + 1]
               /\ UNCHANGED <<ms_timeout, led_state>>
    /\ pc' = "loop_btn"
    /\ UNCHANGED <<envVars, err, configured, led_init_rc, led_boot, exists,
                   attachVars, credVars, btn_prev, btn_val, conVars, cert>>

\* (variant: level-triggered instead of edge-triggered)
RisingEdge_Level(prev, val) == val = 1

\* the edge test  (btn_prev == 0) && (btn_val == 1)
RisingEdge(prev, val) == prev = 0 /\ val = 1

\* number of rising edges the samples seen so far contain, after one more
\* valid sample 'val' (a rising edge needs an earlier sample at level 0)
EdgesAfter(val) ==
    IF loop.lastLevel = 0 /\ val = 1 THEN loop.edges + 1 ELSE loop.edges

\* what gpio_pin_get_dt may return: 0, 1 or a negative errno for the first
\* MaxSamples samples; after that the button stays at its level
EIO == -5
ButtonInputs ==
    IF loop.samples < MaxSamples THEN {EIO, 0, 1}
    ELSE {IF loop.lastLevel = NoLevel THEN 0 ELSE loop.lastLevel}

\* (variant: btn_prev = btn_val is done after a failed read as well)
ButtonRead_PrevOnError ==
    /\ pc = "loop_btn"
    /\ \E v \in ButtonInputs :
          /\ btn_val' = v
          /\ IF v < 0
                THEN /\ pc' = "loop_sleep"
                     /\ loop' = [loop EXCEPT !.samples = @ + 1,
                                             !.hist = Append(@, v)]
                     /\ btn_prev' = v
                     /\ UNCHANGED <<led_state, printed>>
                ELSE /\ loop' = [loop EXCEPT !.samples = @ + 1,
                                             !.hist = Append(@, v),
                                             !.firstLevel =
                                                IF @ = NoLevel THEN v ELSE @,
                                             !.lastLevel = v,
                                             !.edges = EdgesAfter(v)]
                     /\ IF RisingEdge(btn_prev, v)
                           THEN /\ printed' = Put(printed, "Pushed")
                                /\ led_state' = PinSet("led_state", led_state, 1)
                                /\ pc' = "download"
                                /\ UNCHANGED btn_prev
                           ELSE /\ btn_prev' = v
                                /\ pc' = "loop_sleep"
                                /\ UNCHANGED <<led_state, printed>>
    /\ UNCHANGED <<envVars, err, configured, led_init_rc, led_boot, exists,
                   attachVars, credVars, ms_now, ms_timeout, lastHandlerPrint, cb,
                   cert>>

\* btn_val = gpio_pin_get_dt(&btn_send): 0, 1 or a negative errno
ButtonRead ==
    /\ pc = "loop_btn"
    /\ \E v \in ButtonInputs :
          /\ btn_val' = v
          /\ IF v < 0
                THEN /\ pc' = "loop_sleep"
                     /\ loop' = [loop EXCEPT !.samples = @ + 1,
                                             !.hist = Append(@, v)]
                     /\ UNCHANGED <<btn_prev, led_state, printed>>
                ELSE /\ loop' = [loop EXCEPT !.samples = @ + 1,
                                             !.hist = Append(@, v),
                                             !.firstLevel =
                                                IF @ = NoLevel THEN v ELSE @,
                                             !.lastLevel = v,
                                             !.edges = EdgesAfter(v)]
                     /\ IF RisingEdge(btn_prev, v)
                           THEN /\ printed' = Put(printed, "Pushed")
                                /\ led_state' = PinSet("led_state", led_state, 1)
                                /\ pc' = "download"
                                /\ UNCHANGED btn_prev
                           ELSE /\ btn_prev' = v
                                /\ pc' = "loop_sleep"
                                /\ UNCHANGED <<led_state, printed>>
    /\ UNCHANGED <<envVars, err, configured, led_init_rc, led_boot, exists,
                   attachVars, credVars, ms_now, ms_timeout, lastHandlerPrint, cb,
                   cert>>

\* ---- cb_fileDownload (lines 239-249) ----

MaxChunkLen == 3      \* length of the short chunks explored
SampleBytes == {0, 10, 171, 255}

\* the chunks SipfFileDownload hands to the callback: every short chunk over
\* SampleBytes, and a chunk one byte short of work_buff and a full one
\* running through all byte values
Pattern(n) == [k \in 1..n |-> (k * 7) % 256]
ShortChunks == UNION {[1..n -> SampleBytes] : n \in 0..MaxChunkLen}
Chunks == ShortChunks \cup {Pattern(SZ_WORK_BUFF - 1), Pattern(SZ_WORK_BUFF)}

\* "%02x": a byte as two lowercase hex digits, high nibble first
HexDigits == <<"0", "1", "2", "3", "4", "5", "6", "7", "8", "9",
               "a", "b", "c", "d", "e", "f">>
Hex02x(b) == <<HexDigits[(b \div 16) + 1], HexDigits[(b % 16) + 1]>>

\* for (i = 0; i < len; i++) UartBrokerPrint("%02x", buff[i])
HexDump(buff) ==
    [k \in 1..(2 * Len(buff)) |-> Hex02x(buff[(k + 1) \div 2])[2 - (k % 2)]]

\* (variant: the line end is put after a full chunk too)
CbOutput_CrlfAlways(buff) == HexDump(buff) \o <<"\r", "\n">>

\* the characters one cb_fileDownload(buff, len) call puts on the console
CbOutput(buff) ==
    HexDump(buff) \o (IF Len(buff) < SZ_WORK_BUFF THEN <<"\r", "\n">>
                                                  ELSE <<>>)

\* SipfFileDownload calls cb_fileDownload with the chunk it received, cb[1]
CbFileDownload ==
    /\ pc = "download"
    /\ Len(cb) = 1
    /\ cb' = <<cb[1], CbOutput(cb[1])>>
    /\ UNCHANGED <<envVars, pc, err, gpioVars, exists, attachVars, credVars,
                   loopVars, printed, lastHandlerPrint, cert>>

\* (variant: a failed download is treated as fatal)
FileDownload_FatalOnFail ==
    /\ pc = "download"
    /\ \E ok \in BOOLEAN, d \in DlDurations :
          /\ uptime' = uptime + d
          /\ printed' = Put(printed, IF ok THEN "Received" ELSE "FAILED")
          /\ loop' = [loop EXCEPT !.downloads = @ + 1, !.dlSince = TRUE]
          /\ IF ok THEN pc' = "loop_sleep" /\ UNCHANGED err
                   ELSE Fatal("DownloadFailed")
    /\ led_state' = PinSet("led_state", led_state, 0)
    /\ btn_prev' = btn_val
    /\ cb' = <<>>
    /\ UNCHANGED <<ready, keyPresent, modemOnline, configured,
                   led_init_rc, led_boot, exists, attachVars, credVars,
                   ms_now, ms_timeout, btn_val, lastHandlerPrint, cert>>

\* recv_len = SipfFileDownload(...); FAILED or Received; state LED off;
\* btn_prev = btn_val (what the callback puts on the console meanwhile is
\* followed in CbSpec)
FileDownload ==
    /\ pc = "download"
    /\ \E ok \in BOOLEAN, d \in DlDurations :
          /\ uptime' = uptime + d
          /\ printed' = Put(printed, IF ok THEN "Received" ELSE "FAILED")
          /\ loop' = [loop EXCEPT !.downloads = @ + 1, !.dlSince = TRUE]
    /\ led_state' = PinSet("led_state", led_state, 0)
    /\ btn_prev' = btn_val
    /\ cb' = <<>>
    /\ pc' = "loop_sleep"
    /\ UNCHANGED <<ready, keyPresent, modemOnline, err, configured,
                   led_init_rc, led_boot, exists, attachVars, credVars,
                   ms_now, ms_timeout, btn_val, lastHandlerPrint, cert>>

\* k_sleep(K_MSEC(10))
LoopSleep ==
    /\ pc = "loop_sleep"
    /\ uptime' = uptime + LOOP_SLEEP_MS
    /\ pc' = "loop_hb"
    /\ UNCHANGED <<ready, keyPresent, modemOnline, err, gpioVars, exists,
                   attachVars, credVars, loopVars, conVars, cert>>

\* ---- main: err label (lines 342-346) ----

\* gpio_pin_toggle_dt(&led_boot)
ErrToggle ==
    /\ pc = "err"
    /\ loop.blinks < MaxBlink
    /\ led_boot' = PinToggle("led_boot", led_boot)
    /\ loop' = [loop EXCEPT !.blinks = @ + 1]
    /\ pc' = "err_sleep"
    /\ UNCHANGED <<envVars, err, configured, led_init_rc, led_state, exists,
                   attachVars, credVars, ms_now, ms_timeout, btn_prev,
                   btn_val, conVars, cert>>

\* k_sleep(K_MSEC(100))
ErrSleep ==
    /\ pc = "err_sleep"
    /\ uptime' = uptime + ERR_BLINK_MS
    /\ pc' = "err"
    /\ UNCHANGED <<ready, keyPresent, modemOnline, err, gpioVars, exists,
                   attachVars, credVars, loopVars, conVars, cert>>

\* ---- the program ----

Main ==
    \/ MainLedInit \/ MainButtonInit
    \/ ModemLibInit \/ CertExists \/ CertDelete \/ CertWrite
    \/ PdnCreate \/ PdnConfigure
    \/ AttachLoop \/ LteInit \/ LteEventsEnable \/ LteConnectAsync
    \/ SemTakeOk \/ SemTakeTimeout \/ SemTakeError \/ LteOffline \/ LteDeinit \/ LtePsmReq
    \/ AuthRequest \/ AuthBackoff \/ SetAuthInfo
    \/ MainReady \/ Heartbeat \/ ButtonRead \/ FileDownload \/ LoopSleep
    \/ ErrToggle \/ ErrSleep

Next == Main \/ LteEvent

Spec == Init /\ [][Next]_vars

\* the main task is always scheduled again; every blocking call returns
FairSpec == Spec /\ WF_vars(Main)

\* the device after an undisturbed boot (every device ready, empty
\* keystore, attach at the first attempt, first auth_request accepted), at
\* the start of the operational loop, with h loop iterations to explore
ReadyState(h) ==
    /\ ready = Devices
    /\ keyPresent = TRUE
    /\ modemOnline = TRUE
    /\ uptime = 0
    /\ pc = "loop_hb"
    /\ err = "none"
    /\ configured = Devices
    /\ led_init_rc = "0"
    /\ led_boot = 1
    /\ led_state = 1
    /\ exists = FALSE
    /\ i = 0
    /\ bringup_rc = "ok"
    /\ lte_connected = 0
    /\ evt_handler = TRUE
    /\ user_name = 1
    /\ password = 1
    /\ ms_now = 0
    /\ ms_timeout = LED_HEARTBEAT_MS
    /\ btn_prev = 0
    /\ btn_val = 0
    /\ printed = [l \in Lines |->
                    IF l \in {"SetAuthMode", "OK", "Ready"} THEN 1 ELSE 0]
    /\ lastHandlerPrint = "REGISTERD"
    /\ cert = [existedAtQuery |-> FALSE, deleteCalls |-> 0, deleteOk |-> FALSE,
               presentAtWrite |-> FALSE, writeCalls |-> 1, writeOk |-> 1]
    /\ lte = [modemInit |-> 1, init |-> 1, connect |-> 1, timeouts |-> 0,
              cleanup |-> "clean", eventsEnabled |-> TRUE,
              regSinceConnect |-> TRUE, takenAt |-> 1, psm |-> 1]
    /\ auth = [calls |-> 1, fails |-> 0, last |-> "ok", setCalls |-> 1,
               setArg |-> <<1, 1>>, setOk |-> TRUE]
    /\ loop = LoopStart(h)

\* the operational loop alone, followed over MaxHbSamples iterations
HbInit == ReadyState(MaxHbSamples) /\ cb = <<>>

HbNext == Heartbeat \/ ButtonRead \/ FileDownload \/ LoopSleep \/ LteEvent

HbSpec == HbInit /\ [][HbNext]_vars

\* one callback call: the ready device is inside SipfFileDownload, which
\* has received the chunk cb[1]
CbInit ==
    /\ ready = Devices
    /\ keyPresent = TRUE
    /\ modemOnline = TRUE
    /\ uptime = 0
    /\ pc = "download"
    /\ err = "none"
    /\ configured = Devices
    /\ led_init_rc = "0"
    /\ led_boot = 1
    /\ led_state = 1
    /\ exists = FALSE
    /\ i = 0
    /\ bringup_rc = "ok"
    /\ lte_connected = 0
    /\ evt_handler = TRUE
    /\ user_name = 1
    /\ password = 1
    /\ ms_now = 0
    /\ ms_timeout = LED_HEARTBEAT_MS
    /\ btn_prev = 0
    /\ btn_val = 1
    /\ printed = [l \in Lines |->
                    IF l \in {"SetAuthMode", "OK", "Ready", "Pushed"}
                       THEN 1 ELSE 0]
    /\ lastHandlerPrint = "REGISTERD"
    /\ cert = [existedAtQuery |-> FALSE, deleteCalls |-> 0, deleteOk |-> FALSE,
               presentAtWrite |-> FALSE, writeCalls |-> 1, writeOk |-> 1]
    /\ lte = [modemInit |-> 1, init |-> 1, connect |-> 1, timeouts |-> 0,
              cleanup |-> "clean", eventsEnabled |-> TRUE,
              regSinceConnect |-> TRUE, takenAt |-> 1, psm |-> 1]
    /\ auth = [calls |-> 1, fails |-> 0, last |-> "ok", setCalls |-> 1,
               setArg |-> <<1, 1>>, setOk |-> TRUE]
    /\ loop = [LoopStart(MaxSamples) EXCEPT
                  !.iterations = 1, !.samples = 1, !.hist = <<1>>,
                  !.firstLevel = 1, !.lastLevel = 1]
    /\ \E buff \in Chunks : cb = <<buff>>

CbNext == CbFileDownload \/ FileDownload

CbSpec == CbInit /\ [][CbNext]_vars

\* ---- properties ----

ErrPcs == {"err", "err_sleep"}
PeripheralPcs == {"boot", "button_init"}
InTerminal == pc \in ErrPcs

\* C1: network bring-up never loops indefinitely: lte_lc_init is issued at
\* most REGISTER_TRY times, and once the attach loop is entered
\* init_modem_and_lte returns, with 0 or with a failure.
C1_BringUpBounded ==
    /\ [](lte.init <= REGISTER_TRY /\ lte.connect <= REGISTER_TRY)
    /\ (pc = "attach_loop") ~> (bringup_rc \in {"ok", "failed"})

\* three timed-out attempts ended bring-up with the attach failure
C1_Witness ==
    /\ lte.init = REGISTER_TRY
    /\ lte.timeouts = REGISTER_TRY
    /\ bringup_rc = "failed"
    /\ err = "AttachExhausted"

\* C2: after an attach timeout, lte_lc_offline and then lte_lc_deinit have
\* both been called before the next lte_lc_init is called and before the
\* exhausted attach is reported.
C2_CleanupBeforeRetry ==
    [][(lte'.init > lte.init \/ (err # err' /\ err' = "AttachExhausted"))
          => lte.cleanup = "clean"]_vars

\* a second attempt has been initialised after a timed-out first one
C2_Witness ==
    /\ lte.timeouts = 1
    /\ lte.init = 2
    /\ pc = "events_enable"

\* C3: an attempt goes on to the PSM request only because of a registered
\* event delivered after that attempt's lte_lc_connect_async.
C3_PermitFromThisAttempt == pc = "psm" => lte.regSinceConnect

\* C4 as stated: at most one successful write, and an entry that existed is
\* gone from the keystore before the write succeeds.
C4_DeletedBeforeWrite ==
    /\ cert.writeOk <= 1
    /\ (cert.writeOk = 1 /\ cert.existedAtQuery) => ~cert.presentAtWrite

\* C4 as amended: at most one successful write; when an entry existed, one
\* delete is attempted before the write is issued, and the entry is gone
\* before the write unless that delete failed.
C4_DeleteAttemptedBeforeWrite ==
    /\ cert.writeOk <= 1
    /\ cert.writeCalls <= 1
    /\ (cert.writeCalls = 1 /\ cert.existedAtQuery) => cert.deleteCalls = 1
    /\ (cert.writeCalls = 1 /\ cert.existedAtQuery /\ cert.deleteOk)
          => ~cert.presentAtWrite
    /\ ~cert.existedAtQuery => cert.deleteCalls = 0

\* an existing entry was deleted and the certificate written
C4_Witness ==
    /\ cert.existedAtQuery
    /\ cert.deleteCalls = 1
    /\ cert.writeOk = 1

\* C5: SipfClientHttpSetAuthInfo is called at most once, only when the
\* latest SipfAuthRequest succeeded, and with the pair that call produced.
C5_SetAuthAfterSuccess ==
    /\ auth.setCalls <= 1
    /\ auth.setCalls = 1 =>
          /\ auth.last = "ok"
          /\ auth.setArg = <<auth.calls, auth.calls>>
    /\ pc = "set_auth" => auth.last = "ok"

\* set_auth was called after failed requests followed by a successful one
C5_Witness ==
    /\ auth.setCalls = 1
    /\ auth.fails = MaxAuthFail

\* downloads invoked so far, the one being entered included
Invoked == loop.downloads + (IF pc = "download" THEN 1 ELSE 0)

\* C6 as stated: the number of file_download invocations equals the number
\* of rising edges (a sample at 0 followed by a sample at 1) observed.
C6_OncePerObservedEdge == Invoked = loop.edges

\* C6 as amended: btn_prev starts at 0, so a first valid sample at level 1
\* also fires one download; apart from that, one download per rising edge
\* between valid samples.
C6_OncePerEdgeFromZero ==
    Invoked = loop.edges + (IF loop.firstLevel = 1 THEN 1 ELSE 0)

\* the button went 0 -> 1 and was then held: one download
C6_Witness ==
    /\ loop.firstLevel = 0
    /\ loop.lastLevel = 1
    /\ loop.edges = 1
    /\ loop.downloads = 1
    /\ btn_prev = 1
    /\ pc = "loop_sleep"
    /\ loop.iterations = 3

\* C7: a successful certificate write precedes auth_request and
\* file_download, init_modem_and_lte returning 0 precedes the first
\* auth_request, and a successful set_auth precedes the operational loop
\* and any file_download.
C7_PhaseOrder ==
    /\ (pc \in {"auth_request", "download"} \/ auth.calls > 0
          \/ loop.downloads > 0) => cert.writeOk = 1
    /\ (pc = "auth_request" \/ auth.calls > 0) => bringup_rc = "ok"
    /\ (pc \in {"loop_hb", "loop_btn", "download", "loop_sleep"}
          \/ loop.iterations > 0 \/ loop.downloads > 0) => auth.setOk

\* a download has been made
C7_Witness ==
    /\ loop.downloads = 1
    /\ printed["Ready"] = 1

\* a fatal failure has been detected by the code
FatalDetected == led_init_rc = ENODEV \/ err # "none"

\* C8: every fatal failure leads to the terminal state (peripheral
\* initialisation may finish first), in which only the boot LED is toggled:
\* the state is never left and no further work is done in it.
C8_FatalIsTerminal ==
    /\ [](FatalDetected => (InTerminal \/ pc \in PeripheralPcs))
    /\ [][InTerminal => /\ InTerminal'
                        /\ UNCHANGED <<cert, auth, led_state, btn_val,
                                       btn_prev>>
                        /\ lte'.init = lte.init
                        /\ lte'.connect = lte.connect
                        /\ loop'.samples = loop.samples
                        /\ loop'.downloads = loop.downloads]_vars

\* C9: when an LED device or the button device is not ready at boot, the
\* device goes to the terminal state and modem bring-up is never started.
C9_HardwareUnavailableIsFatal ==
    (ready # Devices /\ pc \notin PeripheralPcs)
        => (InTerminal /\ lte.modemInit = 0)

\* C10: a failed auth_request prints the retry notice and is followed, after
\* the 10 s back-off, by another auth_request, whatever the number of
\* failures so far; auth failures never lead to the terminal state; a
\* success prints OK once and goes on to set_auth.
C10_AuthRetriedWithoutCap ==
    /\ [][auth'.fails > auth.fails =>
             /\ pc' = "auth_backoff"
             /\ printed'["faild"] = printed["faild"] + 1]_vars
    /\ [][(pc = "auth_backoff" /\ pc' # pc) =>
             /\ pc' = "auth_request"
             /\ uptime' = uptime + AUTH_RETRY_MS]_vars
    /\ \A n \in 1..MaxAuthFail :
          (auth.fails = n /\ auth.calls = n) ~> (auth.calls = n + 1)
    /\ [](auth.last = "failed" => ~InTerminal)
    /\ [](/\ printed["OK"] <= 1
          /\ printed["faild"] = auth.fails
          /\ printed["OK"] = 1 <=> auth.last = "ok"
          /\ printed["OK"] = 1 => (pc = "set_auth" \/ auth.setCalls = 1))

\* MaxAuthFail failures, then a success, and set_auth called
C10_Witness ==
    /\ printed["faild"] = MaxAuthFail
    /\ printed["OK"] = 1
    /\ auth.calls = MaxAuthFail + 1
    /\ auth.setCalls = 1

\* C11: lte_lc_psm_req is called only in an attempt whose k_sem_take took
\* the permit (not a timed-out or failed one), and whatever its result
\* init_modem_and_lte returns 0 and main goes on to SipfAuthRequest.
C11_PsmAfterAttachNonFatal ==
    /\ []((pc = "psm" \/ lte.psm # 0) =>
             /\ lte.takenAt = lte.connect
             /\ lte.connect = lte.init
             /\ lte.timeouts = lte.connect - 1
             /\ err \notin {"LteInitFailed", "ConnectRequestFailed",
                            "SemTakeError", "AttachExhausted"})
    /\ [](lte.psm # 0 => bringup_rc = "ok")
    /\ [][(lte.psm = 0 /\ lte'.psm # 0) =>
             (bringup_rc' = "ok" /\ pc' = "auth_request")]_vars

\* the PSM request failed and authentication was started all the same
C11_Witness ==
    /\ lte.psm = -1
    /\ bringup_rc = "ok"
    /\ auth.calls = 1

\* failures of an attach attempt other than the timeout
StructuralErrs == {"LteInitFailed", "ConnectRequestFailed", "SemTakeError"}

\* C17: only an attach timeout is retried: when lte_lc_init or
\* lte_lc_connect_async fails, or k_sem_take returns another error, bring-up
\* fails at once and no further lte_lc_init or lte_lc_connect_async is made,
\* whatever is left of the budget.
C17_OnlyTimeoutRetried ==
    /\ [](err \in StructuralErrs => (InTerminal /\ bringup_rc = "failed"))
    /\ [][(err \in StructuralErrs) =>
             (lte'.init = lte.init /\ lte'.connect = lte.connect)]_vars
    /\ [](lte.init <= lte.timeouts + 1)

\* the connect request of the first attempt failed: no second attempt
C17_Witness ==
    /\ err = "ConnectRequestFailed"
    /\ lte.init = 1
    /\ lte.timeouts = 0
    /\ loop.blinks = MaxBlink

\* C18: in every attempt the modem events are enabled after that attempt's
\* lte_lc_init and before its lte_lc_connect_async; no connect request is
\* made in an attempt whose lte_lc_init failed or without the events
\* enabled since the latest lte_lc_init.
C18_EventsEnabledBeforeConnect ==
    /\ [](pc = "connect" =>
             (lte.eventsEnabled /\ lte.init = i + 1 /\ err = "none"))
    /\ [][lte'.connect > lte.connect =>
             (lte.eventsEnabled /\ pc = "connect")]_vars
    /\ [](err = "LteInitFailed" => lte.connect < lte.init)

\* the second attempt, after a timeout, has made its connect request
C18_Witness ==
    /\ lte.timeouts = 1
    /\ lte.connect = 2
    /\ lte.eventsEnabled
    /\ pc = "sem_take"

\* C19: a step of lte_handler gives the semaphore for a registration status
\* registered-home or registered-roaming and leaves it unchanged for every
\* other event; the count never exceeds 1.
C19_OnlyRegisteredGives ==
    /\ [](lte_connected \in {0, 1})
    /\ [][\A e \in Events :
             lte_handler(e[1], e[2]) =>
                IF e[1] = "NW_REG_STATUS" /\ Registered(e[2])
                   THEN lte_connected' = 1
                   ELSE lte_connected' = lte_connected]_vars

\* a registered event gave the permit and a later SEARCHING event left it
C19_Witness ==
    /\ lte_connected = 1
    /\ lastHandlerPrint = "SEARCHING"
    /\ pc = "sem_take"

\* the lowercase hex digits and their values
LowerHex == <<"0", "1", "2", "3", "4", "5", "6", "7", "8", "9",
              "a", "b", "c", "d", "e", "f">>
LowerHexChars == {LowerHex[d] : d \in 1..16}
HexVal(c) == CHOOSE v \in 0..15 : LowerHex[v + 1] = c

\* C13: one cb_fileDownload(buff, len) call with len <= 1024 puts exactly
\* 2 * len lowercase hex characters, two per byte in byte order, and then
\* CR LF if and only if len < 1024.
C13_HexChunk ==
    Len(cb) = 2 =>
       LET buff == cb[1]
           out == cb[2]
           n == Len(buff)
       IN /\ n <= SZ_WORK_BUFF
          /\ Len(out) = 2 * n + (IF n < SZ_WORK_BUFF THEN 2 ELSE 0)
          /\ \A k \in 1..n :
                /\ out[2 * k - 1] \in LowerHexChars
                /\ out[2 * k] \in LowerHexChars
                /\ 16 * HexVal(out[2 * k - 1]) + HexVal(out[2 * k]) = buff[k]
          /\ n < SZ_WORK_BUFF => (out[2 * n + 1] = "\r" /\ out[2 * n + 2] = "\n")

\* the callback has handled a full chunk of 1024 bytes
C13_Witness ==
    /\ Len(cb) = 2
    /\ Len(cb[1]) = SZ_WORK_BUFF
    /\ Len(cb[2]) = 2 * SZ_WORK_BUFF

\* a step of Heartbeat that toggles the state LED
HbToggle == loop'.toggles > loop.toggles

\* time from the previous heartbeat toggle to the one made in this step
HbInterval == uptime - loop.lastToggle

\* C12 as stated: consecutive heartbeat toggles are 490..510 ms apart.
C12_PeriodWithinPacer ==
    [][(HbToggle /\ loop.lastToggle >= 0) =>
          /\ HbInterval >= LED_HEARTBEAT_MS - LOOP_SLEEP_MS
          /\ HbInterval <= LED_HEARTBEAT_MS + LOOP_SLEEP_MS]_vars

\* C12 as amended: the LED is toggled on the first iteration whose clock
\* reading is past the deadline, the deadline becomes that reading plus
\* 500 ms, and consecutive toggles are 490..510 ms apart when no
\* file_download ran between them; a download in between only lengthens
\* the interval.
C12_PeriodWithoutDownload ==
    [][HbToggle =>
          /\ uptime > ms_timeout
          /\ ms_timeout' = uptime + LED_HEARTBEAT_MS
          /\ loop.lastToggle >= 0 =>
                /\ HbInterval >= LED_HEARTBEAT_MS - LOOP_SLEEP_MS
                /\ ~loop.dlSince =>
                      HbInterval <= LED_HEARTBEAT_MS + LOOP_SLEEP_MS]_vars

\* two toggles 510 ms apart with no download between them (the first one
\* came 610 ms after Ready, behind a long download)
C12_Witness ==
    /\ loop.toggles = 2
    /\ loop.downloads = 1
    /\ ~loop.dlSince
    /\ loop.lastToggle = (LED_HEARTBEAT_MS + 100 + LOOP_SLEEP_MS)
                            + LED_HEARTBEAT_MS + LOOP_SLEEP_MS
    /\ pc = "loop_btn"

\* C14: a failed download prints FAILED and not Received, clears the state
\* LED and goes on with the loop: the terminal state is never entered and
\* the next iteration (heartbeat check, button sample) follows.
C14_DownloadFailureNonFatal ==
    /\ [][(pc = "download" /\ printed'["FAILED"] > printed["FAILED"]) =>
             /\ printed'["FAILED"] = printed["FAILED"] + 1
             /\ printed'["Received"] = printed["Received"]
             /\ led_state' = 0
             /\ pc' = "loop_sleep"
             /\ err' = "none"]_vars
    /\ [](printed["FAILED"] > 0 => ~InTerminal)
    /\ (printed["FAILED"] > 0 /\ pc = "loop_sleep"
           /\ loop.iterations < loop.horizon) ~> (pc = "loop_btn")

\* after a failed download the heartbeat toggled and a further rising edge
\* started another download
C14_Witness ==
    /\ printed["FAILED"] = 1
    /\ printed["Received"] = 0
    /\ loop.toggles = 1
    /\ loop.downloads = 1
    /\ pc = "download"

\* C15: the state LED is on only after "+++ Ready +++", which is printed
\* once and only after init_modem_and_lte returned 0, SipfAuthRequest
\* succeeded and SipfClientHttpSetAuthInfo succeeded; after a failed
\* bring-up the LED stays off and Ready is never printed.
C15_StateLedOnlyWhenReady ==
    /\ led_state = 1 => printed["Ready"] = 1
    /\ printed["Ready"] <= 1
    /\ printed["Ready"] = 1 =>
          (bringup_rc = "ok" /\ auth.last = "ok" /\ auth.setOk)
    /\ bringup_rc = "failed" => (led_state = 0 /\ printed["Ready"] = 0)

\* three timeouts: the boot LED blinks, the state LED is off, no Ready
C15_Witness ==
    /\ err = "AttachExhausted"
    /\ lte.timeouts = REGISTER_TRY
    /\ loop.blinks = MaxBlink
    /\ led_state = 0
    /\ printed["Ready"] = 0

\* C16: once peripheral initialisation is over the boot LED is on, and it
\* stays on, untouched, through bring-up, the retries and the operational
\* loop; it changes only while entering or in the terminal state.
C16_BootLedOnUntilTerminal ==
    /\ []((pc \notin PeripheralPcs /\ ~InTerminal) => led_boot = 1)
    /\ [][led_boot' # led_boot => (pc = "boot" \/ InTerminal')]_vars

\* the last three button samples
Last3 == SubSeq(loop.hist, Len(loop.hist) - 2, Len(loop.hist))

\* a step of ButtonRead
Sampled == pc = "loop_btn" /\ pc' # "loop_btn"

\* C20: a failed button read starts no download, leaves btn_prev unchanged
\* and goes on with the loop; so of three consecutive samples 1, error, 1
\* the last two start no download, while in 0, error, 1 the last one starts
\* one.
C20_ReadErrorKeepsPrev ==
    /\ [][(Sampled /\ btn_val' < 0) =>
             /\ btn_prev' = btn_prev
             /\ pc' = "loop_sleep"
             /\ err' = "none"
             /\ printed' = printed
             /\ loop'.downloads = loop.downloads]_vars
    /\ [][(Sampled /\ Len(loop'.hist) >= 3) =>
             /\ Last3' = <<1, EIO, 1>> => (pc' = "loop_sleep" /\ btn_prev' = 1)
             /\ Last3' = <<0, EIO, 1>> => (pc' = "download" /\ btn_prev' = 0)]_vars
    /\ [](btn_prev \in {0, 1})

\* the button read 0, then failed, then read 1: a download is started
C20_Witness ==
    /\ loop.hist = <<0, EIO, 1>>
    /\ pc = "download"
    /\ loop.downloads = 0

====
